---- MODULE Spec2Model ----
(***************************************************************************)
(* ChromaCheck (palette-checker): the palette, the filter legend and the   *)
(* grid of contrast cards of src/script.js (lines 1-447, the snapshot with *)
(* APCA scores and badge filters), as a state machine.                     *)
(*                                                                         *)
(* Strings are sequences of one-character strings, so that the regular     *)
(* expression of isValidHex, the slicing of hexToRgb and the digit         *)
(* duplication of expandHex are computed character by character.           *)
(*                                                                         *)
(* JavaScript numbers are fixed-point integers with 8 decimals (the value  *)
(* x is the integer x * 10^8); every intermediate result fits 32 bits.     *)
(* Math.pow is exp(p * ln x) by series, accurate to about 3 * 10^-7.       *)
(***************************************************************************)
EXTENDS Integers, Sequences, FiniteSets, TLC

(***************************************************************************)
(* Fixed-point arithmetic                                                  *)
(***************************************************************************)
ONE == 10000 * 10000

Abs(x) == IF x < 0 THEN -x ELSE x
Max(a, b) == IF a >= b THEN a ELSE b
Min(a, b) == IF a <= b THEN a ELSE b

\* a * b for fixed-point a, b >= 0, by limbs of four digits
Mul(a, b) ==
    LET limb == 10000
        a1 == a \div limb  a0 == a % limb
        b1 == b \div limb  b0 == b % limb
    IN  a1 * b1 + (a1 * b0) \div limb + (a0 * b1) \div limb + (a0 * b0) \div ONE

RECURSIVE Pow10(_)
Pow10(n) == IF n = 0 THEN 1 ELSE 10 * Pow10(n - 1)

RECURSIVE Pow2(_)
Pow2(n) == IF n = 0 THEN 1 ELSE 2 * Pow2(n - 1)

\* n decimal digits of r / d, for 0 <= r < d
RECURSIVE DivDigits(_, _, _)
DivDigits(r, d, n) ==
    IF n = 0 THEN 0
    ELSE ((r * 10) \div d) * Pow10(n - 1) + DivDigits((r * 10) % d, d, n - 1)

\* n / d as a fixed-point number, for n >= 0 and d > 0 in the same unit
Div(n, d) == (n \div d) * ONE + DivDigits(n % d, d, 8)

\* ln 2
LN2 == 69314718 + 0 * ONE

\* the number of doublings that bring x into [1/2, ...)
RECURSIVE Halvings(_)
Halvings(x) == IF 2 * x >= ONE THEN 0 ELSE 1 + Halvings(2 * x)

\* term/n + term*zz/(n+2) + ... up to the power last, where term = z^n and
\* zz = z^2: the series of atanh z from its n-th power on
RECURSIVE AtanhSeries(_, _, _, _)
AtanhSeries(zz, term, n, last) ==
    IF n > last THEN 0
    ELSE term \div n + AtanhSeries(zz, Mul(term, zz), n + 2, last)

Atanh(z) == AtanhSeries(Mul(z, z), z, 1, 19)

\* ln (m / 2^k) for m >= 1/2: ln m = 2 atanh((m - 1) / (m + 1))
LnReduced(m, k) ==
    (IF m >= ONE THEN 2 * Atanh(Div(m - ONE, m + ONE))
     ELSE -(2 * Atanh(Div(ONE - m, m + ONE)))) - k * LN2

\* ln x for fixed-point x > 0 (a signed fixed-point number)
Ln(x) == LnReduced(x * Pow2(Halvings(x)), Halvings(x))

\* t + t*r/(n+1) + ... up to the power last, where t = r^n / n!
RECURSIVE ExpSeries(_, _, _, _)
ExpSeries(r, t, n, last) ==
    IF n > last THEN 0
    ELSE t + ExpSeries(r, Mul(t, r) \div (n + 1), n + 1, last)

\* 2^k * e^r for 0 <= r < ln 2
ExpReduced(k, r) ==
    IF k >= 0 THEN (ONE + ExpSeries(r, r, 1, 13)) * Pow2(k)
    ELSE IF -k > 30 THEN 0
    ELSE (ONE + ExpSeries(r, r, 1, 13)) \div Pow2(-k)

\* e^y for a signed fixed-point y < 3
Exp(y) == ExpReduced(y \div LN2, y % LN2)

\* a * pn / 1000 for a >= 0
Scaled(a, pn) == (a \div 1000) * pn + ((a % 1000) * pn) \div 1000

\* e^(l * pn / 1000); a result below 10^-8 is 0
ExpScaled(l, pn) ==
    IF l >= 0 THEN Exp(Scaled(l, pn))
    ELSE IF (-l) \div 1000 > 2000000000 \div pn THEN 0
    ELSE Exp(-Scaled(-l, pn))

\* Math.pow(x, pn / 1000) for fixed-point x >= 0; pn is the exponent in
\* thousandths (2.4 is 2400)
MathPow(x, pn) == IF x = 0 THEN 0 ELSE ExpScaled(Ln(x), pn)

\* Math.round(x * 100) for a signed fixed-point x: floor(x * 100 + 0.5)
MathRound100(x) == (x + 500000) \div 1000000

(***************************************************************************)
(* Strings                                                                 *)
(***************************************************************************)
LowerDigits == <<"0", "1", "2", "3", "4", "5", "6", "7", "8", "9",
                 "a", "b", "c", "d", "e", "f">>
UpperDigits == <<"0", "1", "2", "3", "4", "5", "6", "7", "8", "9",
                 "A", "B", "C", "D", "E", "F">>

Range(s) == {s[i] : i \in DOMAIN s}

\* [A-Fa-f0-9]
HexChars == Range(LowerDigits) \cup Range(UpperDigits)

\* the value of one hexadecimal digit, as parseInt(ch, 16)
DigitValue(ch) ==
    (CHOOSE i \in 1..16 : LowerDigits[i] = ch \/ UpperDigits[i] = ch) - 1

\* String.prototype.toLowerCase, on the characters of a hex string
LowerChar(ch) ==
    IF \E i \in 1..16 : UpperDigits[i] = ch
    THEN LowerDigits[CHOOSE i \in 1..16 : UpperDigits[i] = ch]
    ELSE ch
toLowerCase(s) == [i \in DOMAIN s |-> LowerChar(s[i])]

\* String.prototype.startsWith("#")
startsWithHash(s) == Len(s) >= 1 /\ s[1] = "#"

(***************************************************************************)
(* Hex colours (script.js 44-75)                                           *)
(***************************************************************************)
\* isValidHex with {5,6} for {6}
isValidHexFiveOrSix(hex) ==
    /\ Len(hex) \in {4, 6, 7}
    /\ hex[1] = "#"
    /\ \A i \in 2..Len(hex) : hex[i] \in HexChars

\* /^#([A-Fa-f0-9]{6}|[A-Fa-f0-9]{3})$/.test(hex)
isValidHex(hex) ==
    /\ Len(hex) \in {4, 7}
    /\ hex[1] = "#"
    /\ \A i \in 2..Len(hex) : hex[i] \in HexChars

\* expandHex repeating the three digits instead of doubling each
expandHexRepeated(hex) ==
    IF Len(hex) = 4
    THEN <<"#", hex[2], hex[3], hex[4], hex[2], hex[3], hex[4]>>
    ELSE hex

expandHex(hex) ==
    IF Len(hex) = 4
    THEN <<"#", hex[2], hex[2], hex[3], hex[3], hex[4], hex[4]>>
    ELSE hex

\* String.prototype.slice(from, to) for 0 <= from <= to, counted from 0
slice(s, from, to) == SubSeq(s, from + 1, Min(to, Len(s)))

\* parseInt(s, 16) for a non-empty string of hexadecimal digits
RECURSIVE parseInt16(_)
parseInt16(s) ==
    IF Len(s) = 1 THEN DigitValue(s[1])
    ELSE 16 * parseInt16(SubSeq(s, 1, Len(s) - 1)) + DigitValue(s[Len(s)])

\* the null of hexToRgb
Null == [r |-> -1, g |-> -1, b |-> -1]

\* lines 70-74, for the hex of line 68
rgbOf(hex) ==
    [r |-> Div(parseInt16(slice(hex, 1, 3)), 255),
     g |-> Div(parseInt16(slice(hex, 3, 5)), 255),
     b |-> Div(parseInt16(slice(hex, 5, 7)), 255)]

hexToRgb(hex) == IF ~isValidHex(hex) THEN Null ELSE rgbOf(expandHex(hex))

(***************************************************************************)
(* WCAG 2.1 (script.js 83-126)                                             *)
(***************************************************************************)
processChannel(c) ==
    IF c <= 3928000 THEN (c * 100) \div 1292
    ELSE MathPow(Div(c + 5500000, 105500000), 2400)

\* lines 91-95, for the rgb of line 84
luminanceOf(rgb) ==
    IF rgb = Null THEN 0
    ELSE Mul(21260000, processChannel(rgb.r))
         + Mul(71520000, processChannel(rgb.g))
         + Mul(7220000, processChannel(rgb.b))

getRelativeLuminance(hex) == luminanceOf(hexToRgb(hex))

\* lines 109-112, for the l1 and l2 of lines 106-107
\* the ratio without Math.max and Math.min
ratioOfAsGiven(l1, l2) == Div(l1 + 5000000, l2 + 5000000)

ratioOf(l1, l2) == Div(Max(l1, l2) + 5000000, Min(l1, l2) + 5000000)

\* the ratio of getContrastRatio before it is rounded (lines 106-112)
contrastRatioRaw(hex1, hex2) ==
    ratioOf(getRelativeLuminance(hex1), getRelativeLuminance(hex2))

\* Math.round(ratio * 100) / 100
getContrastRatio(hex1, hex2) == MathRound100(contrastRatioRaw(hex1, hex2)) * 1000000

\* getComplianceLevel with > for >=
getComplianceLevelExclusive(ratio) ==
    IF ratio > 7 * ONE THEN "AAA"
    ELSE IF ratio > 450000000 THEN "AA"
    ELSE IF ratio > 3 * ONE THEN "AA Large"
    ELSE "Fail"

getComplianceLevel(ratio) ==
    IF ratio >= 7 * ONE THEN "AAA"
    ELSE IF ratio >= 450000000 THEN "AA"
    ELSE IF ratio >= 3 * ONE THEN "AA Large"
    ELSE "Fail"

(***************************************************************************)
(* APCA 0.0.98G (script.js 129-175)                                        *)
(***************************************************************************)
APCA_RCO == 21267290
APCA_GCO == 71515220
APCA_BCO == 7217500

\* the soft clamp for dark colours, lines 154-155
softClamp(Y) == IF Y < 2200000 THEN Y + MathPow(2200000 - Y, 1414) ELSE Y

\* Y of one colour, soft clamp included (lines 144-155)
apcaY(rgb) ==
    softClamp(Mul(MathPow(rgb.r, 2400), APCA_RCO)
              + Mul(MathPow(rgb.g, 2400), APCA_GCO)
              + Mul(MathPow(rgb.b, 2400), APCA_BCO))

\* x * 1.14 for a signed fixed-point x
Times114(x) == IF x >= 0 THEN Mul(x, 114000000) ELSE -Mul(-x, 114000000)

\* line 162 without the test SAPC < 0.1
clampNormalAbsent(SAPC) == SAPC

\* line 162, before Math.round(SAPC * 100)
clampNormal(SAPC) == IF SAPC < 10000000 THEN 0 ELSE SAPC

\* line 165, before Math.round(SAPC * 100)
clampReverse(SAPC) == IF SAPC > -10000000 THEN 0 ELSE SAPC

\* lines 159-166 alone: neither the test of line 157 nor the clamps to 0
sapcOfUnguarded(Ytxt, Ybg) ==
    IF Ybg > Ytxt
    THEN Times114(MathPow(Ybg, 560) - MathPow(Ytxt, 570))
    ELSE Times114(MathPow(Ybg, 650) - MathPow(Ytxt, 620))

\* lines 157-166 for the Ytxt and Ybg of lines 144-155
sapcOf(Ytxt, Ybg) ==
    IF Abs(Ybg - Ytxt) < 50000 THEN 0
    ELSE IF Ybg > Ytxt
    THEN clampNormal(Times114(MathPow(Ybg, 560) - MathPow(Ytxt, 570)))
    ELSE clampReverse(Times114(MathPow(Ybg, 650) - MathPow(Ytxt, 620)))

\* lines 142-166 for the t and b of lines 140-141
sapcOfRgb(t, b) ==
    IF t = Null \/ b = Null THEN 0 ELSE sapcOf(apcaY(t), apcaY(b))

\* SAPC of calcAPCA, clamped to 0 as the code clamps it, before
\* Math.round(SAPC * 100) (lines 140-165)
calcSAPC(textHex, bgHex) == sapcOfRgb(hexToRgb(textHex), hexToRgb(bgHex))

\* the Lc of calcAPCA: an integer, Math.round(SAPC * 100)
calcAPCA(textHex, bgHex) == MathRound100(calcSAPC(textHex, bgHex))

\* getAPCAComplianceLevel without Math.abs
getAPCAComplianceLevelSigned(lc, unit) ==
    IF lc >= 75 * unit THEN "AAA"
    ELSE IF lc >= 60 * unit THEN "AA"
    ELSE IF lc >= 45 * unit THEN "AA Large"
    ELSE "Fail"

\* getAPCAComplianceLevel of the number lc / unit
getAPCAComplianceLevelIn(lc, unit) ==
    IF Abs(lc) >= 75 * unit THEN "AAA"
    ELSE IF Abs(lc) >= 60 * unit THEN "AA"
    ELSE IF Abs(lc) >= 45 * unit THEN "AA Large"
    ELSE "Fail"

\* getAPCAComplianceLevel of an integer, as calcAPCA returns
getAPCAComplianceLevel(lc) == getAPCAComplianceLevelIn(lc, 1)

(***************************************************************************)
(* State (script.js 7-21)                                                  *)
(***************************************************************************)
MIN_COLORS == 2
MAX_COLORS == 9

Tiers == {"AAA", "AA", "AA Large", "Fail"}

\* the hex values of the initial palette, lines 8-10
InitialHexes == << <<"#", "0", "f", "1", "7", "2", "a">>,
                   <<"#", "f", "8", "f", "a", "f", "c">>,
                   <<"#", "3", "b", "8", "2", "f", "6">> >>

\* newColors of addColor, line 369
newColors == << <<"#", "1", "0", "b", "9", "8", "1">>,
                <<"#", "f", "5", "9", "e", "0", "b">>,
                <<"#", "e", "f", "4", "4", "4", "4">>,
                <<"#", "8", "b", "5", "c", "f", "6">> >>

(***************************************************************************)
(* Bounds of the model                                                     *)
(***************************************************************************)
\* removals, accepted edits, filter toggles and id collisions in one run
MaxEvents == 2

\* outcomes of "#" + Math.floor(Math.random() * 16777215).toString(16)
\* .padStart(6, "0") that the model draws
RandomHexes == { <<"#", "8", "0", "8", "0", "8", "0">> }

\* values a native colour picker reports ("#rrggbb", lower case)
PickerValues == { <<"#", "0", "0", "0", "0", "0", "0">>,
                  <<"#", "f", "f", "f", "f", "f", "f">> }

\* texts typed into a hex field
TypedValues == { <<"7", "9", "8">>,
                 <<"r", "e", "d">>,
                 <<"#", "1", "2", "3", "4", "5">>,
                 <<"#", "g", "g", "g", "g", "g", "g">>,
                 <<>> }

\* "#" followed by exactly 3 or exactly 6 hexadecimal digits
HexDigitChars == {"0", "1", "2", "3", "4", "5", "6", "7", "8", "9",
                  "a", "b", "c", "d", "e", "f", "A", "B", "C", "D", "E", "F"}
MatchesHexPattern(s) ==
    /\ Len(s) \in {4, 7}
    /\ s[1] = "#"
    /\ \A i \in 2..Len(s) : s[i] \in HexDigitChars

\* the text with "#" prepended if missing
WithHash(s) == IF Len(s) >= 1 /\ s[1] = "#" THEN s ELSE <<"#">> \o s

\* whether a typed text is, once "#" is prepended if missing, "#" plus 3 or
\* 6 hexadecimal digits (recorded in lastEvent, read by no handler)
WellFormed(value) == MatchesHexPattern(WithHash(value))

VARIABLES
    colors,         \* the palette: a sequence of [id, hex]
    activeFilters,  \* tier -> shown
    grid,           \* the children of #combinations-grid: the cards
    lastEvent,      \* history: the last handler that ran, whether the text
                    \* it was given was well formed (hex field only), and
                    \* whether it passed its guard
    events          \* history: the events MaxEvents counts

vars == <<colors, activeFilters, grid, lastEvent, events>>

(***************************************************************************)
(* generateId (script.js 35-37)                                            *)
(***************************************************************************)
\* Ids are only ever compared with ===, so an id is a number and the
\* outcomes of Math.random().toString(36).substring(2, 9) are: a string
\* no palette entry has (the smallest unused number stands for all of
\* them), or, when mayCollide, the id of an existing entry.
generateId(inUse, mayCollide) ==
    {CHOOSE n \in 1..(Cardinality(inUse) + 1) : n \notin inUse}
        \cup (IF mayCollide THEN inUse ELSE {})

IdsOf(cols) == {cols[i].id : i \in DOMAIN cols}

(***************************************************************************)
(* Rendering (script.js 270-362)                                           *)
(***************************************************************************)
\* the loops of lines 281-290: the pairs from (i, j) on, indices from 0
RECURSIVE pairsFrom(_, _, _)
pairsFrom(i, j, n) ==
    IF i >= n THEN <<>>
    ELSE IF j >= n THEN pairsFrom(i + 1, 0, n)
    ELSE (IF i # j THEN <<[text |-> i, bg |-> j]>> ELSE <<>>)
             \o pairsFrom(i, j + 1, n)

\* the loops without the test i !== j
RECURSIVE pairsFromWithSelf(_, _, _)
pairsFromWithSelf(i, j, n) ==
    IF i >= n THEN <<>>
    ELSE IF j >= n THEN pairsFromWithSelf(i + 1, 0, n)
    ELSE <<[text |-> i, bg |-> j]>> \o pairsFromWithSelf(i, j + 1, n)

generatePairsWithSelf(n) == pairsFromWithSelf(0, 0, n)

generatePairs(n) == pairsFrom(0, 0, n)

\* what lines 293-299 compute for one pair of hex values
scoresFor(ratio, apcaScore) ==
    [ratio |-> ratio, level |-> getComplianceLevel(ratio),
     apcaScore |-> apcaScore,
     apcaLevel |-> getAPCAComplianceLevel(apcaScore)]

pairScores(textHex, bgHex) ==
    scoresFor(getContrastRatio(textHex, bgHex), calcAPCA(textHex, bgHex))

\* the hex values a palette entry of the model can hold
StoredHexes ==
    Range(InitialHexes) \cup Range(newColors) \cup RandomHexes \cup PickerValues
        \cup {IF startsWithHash(v) THEN v ELSE <<"#">> \o v : v \in TypedValues}

\* pairScores, computed once for each pair of stored values and of their
\* six-digit forms (@@ makes TLC tabulate the function)
TabulatedHexes ==
    StoredHexes \cup {<<"#", h[2], h[2], h[3], h[3], h[4], h[4]>> :
                        h \in {g \in StoredHexes : Len(g) = 4}}
ScoreTable ==
    [p \in TabulatedHexes \X TabulatedHexes |-> pairScores(p[1], p[2])] @@ <<>>

scoresOf(textHex, bgHex) ==
    IF <<textHex, bgHex>> \in DOMAIN ScoreTable
    THEN ScoreTable[<<textHex, bgHex>>]
    ELSE pairScores(textHex, bgHex)

\* the card of lines 301-346: data-level, the texts of its innerHTML, and
\* whether its class list holds "hidden"
makeCard(cols, pair) ==
    LET text == cols[pair.text + 1]
        bg == cols[pair.bg + 1]
        sc == scoresOf(text.hex, bg.hex)
    IN  [text |-> text.hex, bg |-> bg.hex,
         ratio |-> sc.ratio, level |-> sc.level,
         lc |-> Abs(sc.apcaScore), apcaLevel |-> sc.apcaLevel,
         hidden |-> FALSE]

\* filterCombinations that adds "hidden" and never removes it
filterCombinationsSticky(cards, filters) ==
    [k \in DOMAIN cards |->
        [cards[k] EXCEPT !.hidden = cards[k].hidden \/ ~filters[cards[k].level]]]

filterCombinations(cards, filters) ==
    [k \in DOMAIN cards |-> [cards[k] EXCEPT !.hidden = ~filters[cards[k].level]]]

\* renderCombinations without the test of line 275-276
renderCombinationsUnvalidated(cols, filters) ==
    IF Len(cols) < MIN_COLORS THEN <<>>
    ELSE LET pairs == generatePairs(Len(cols))
         IN  filterCombinations([k \in DOMAIN pairs |-> makeCard(cols, pairs[k])],
                                filters)

\* renderCombinations without the call of filterCombinations at its end
renderCombinationsUnfiltered(cols, filters) ==
    IF Len(cols) < MIN_COLORS THEN <<>>
    ELSE IF ~(\A i \in DOMAIN cols : isValidHex(cols[i].hex)) THEN <<>>
    ELSE LET pairs == generatePairs(Len(cols))
         IN  [k \in DOMAIN pairs |-> makeCard(cols, pairs[k])]

renderCombinations(cols, filters) ==
    IF Len(cols) < MIN_COLORS THEN <<>>
    ELSE IF ~(\A i \in DOMAIN cols : isValidHex(cols[i].hex)) THEN <<>>
    ELSE LET pairs == generatePairs(Len(cols))
         IN  filterCombinations([k \in DOMAIN pairs |-> makeCard(cols, pairs[k])],
                                filters)

(***************************************************************************)
(* Initial state (script.js 7-21, 447)                                     *)
(***************************************************************************)
Init ==
    \E id1 \in generateId({}, TRUE) :
    \E id2 \in generateId({id1}, TRUE) :
    \E id3 \in generateId({id1, id2}, TRUE) :
        /\ colors = << [id |-> id1, hex |-> InitialHexes[1]],
                       [id |-> id2, hex |-> InitialHexes[2]],
                       [id |-> id3, hex |-> InitialHexes[3]] >>
        /\ events = 3 - Cardinality({id1, id2, id3})
        /\ events <= MaxEvents
        /\ activeFilters = [t \in Tiers |-> TRUE]
        /\ grid = renderCombinations(colors, activeFilters)
        /\ lastEvent = [op |-> "load", wellFormed |-> TRUE, ok |-> TRUE]

(***************************************************************************)
(* Actions (script.js 365-396, 199-215, 428-444)                           *)
(***************************************************************************)
\* newColors.find((c) => !currentHexes.includes(c)), or "none"
firstNewColor(cols) ==
    LET currentHexes == {toLowerCase(cols[i].hex) : i \in DOMAIN cols}
        free == {k \in DOMAIN newColors : newColors[k] \notin currentHexes}
    IN  IF free = {} THEN "none"
        ELSE newColors[CHOOSE k \in free : \A m \in free : k <= m]

addColor ==
    IF Len(colors) >= MAX_COLORS
    THEN /\ lastEvent' = [op |-> "addColor", wellFormed |-> TRUE, ok |-> FALSE]
         /\ UNCHANGED <<colors, activeFilters, grid, events>>
    ELSE \E id \in generateId(IdsOf(colors), events < MaxEvents) :
         \E random \in RandomHexes :
            LET found == firstNewColor(colors)
                newHex == IF found = "none" THEN random ELSE found
            IN  /\ colors' = Append(colors, [id |-> id, hex |-> newHex])
                /\ events' = IF id \in IdsOf(colors) THEN events + 1 ELSE events
                /\ grid' = renderCombinations(colors', activeFilters)
                /\ lastEvent' = [op |-> "addColor", wellFormed |-> TRUE, ok |-> TRUE]
                /\ UNCHANGED activeFilters

removeColor(id) ==
    IF Len(colors) <= MIN_COLORS
    THEN /\ lastEvent' = [op |-> "removeColor", wellFormed |-> TRUE, ok |-> FALSE]
         /\ UNCHANGED <<colors, activeFilters, grid, events>>
    ELSE /\ events < MaxEvents
         /\ colors' = SelectSeq(colors, LAMBDA c : c.id # id)
         /\ events' = events + 1
         /\ grid' = renderCombinations(colors', activeFilters)
         /\ lastEvent' = [op |-> "removeColor", wellFormed |-> TRUE, ok |-> TRUE]
         /\ UNCHANGED activeFilters

\* colors.find((c) => c.id === id): the index of the first entry, or 0
findColor(cols, id) ==
    IF \E i \in DOMAIN cols : cols[i].id = id
    THEN CHOOSE i \in DOMAIN cols :
            cols[i].id = id /\ \A m \in DOMAIN cols : cols[m].id = id => i <= m
    ELSE 0

\* whether updateColor(id, hex) passes its guard
updateAccepted(cols, id, hex) == findColor(cols, id) # 0 /\ isValidHex(hex)

\* the palette after updateColor(id, hex)
updateColor(cols, id, hex) ==
    IF updateAccepted(cols, id, hex)
    THEN [cols EXCEPT ![findColor(cols, id)].hex = hex]
    ELSE cols

\* the "input" listener of the colour picker of entry i (lines 199-202)
colorInput(i, value) ==
    /\ i \in DOMAIN colors
    /\ events < MaxEvents
    /\ colors' = updateColor(colors, colors[i].id, value)
    /\ grid' = IF updateAccepted(colors, colors[i].id, value)
               THEN renderCombinations(colors', activeFilters) ELSE grid
    /\ events' = events + 1
    /\ lastEvent' = [op |-> "colorInput", wellFormed |-> TRUE,
                     ok |-> updateAccepted(colors, colors[i].id, value)]
    /\ UNCHANGED activeFilters

\* the "change" listener of the hex field of entry i (lines 204-215)
hexInputChange(i, value) ==
    /\ i \in DOMAIN colors
    /\ LET val == IF startsWithHash(value) THEN value ELSE <<"#">> \o value
       IN  IF isValidHex(val)
           THEN /\ events < MaxEvents
                /\ colors' = updateColor(colors, colors[i].id, val)
                /\ grid' = renderCombinations(colors', activeFilters)
                /\ events' = events + 1
                /\ lastEvent' = [op |-> "hexInput", ok |-> TRUE,
                                 wellFormed |-> WellFormed(value)]
           ELSE /\ lastEvent' = [op |-> "hexInput", ok |-> FALSE,
                                 wellFormed |-> WellFormed(value)]
                /\ UNCHANGED <<colors, grid, events>>
    /\ UNCHANGED activeFilters

\* the click listener of the filter legend, on the button of filterKey
filterToggle(filterKey) ==
    /\ events < MaxEvents
    /\ activeFilters' = [activeFilters EXCEPT ![filterKey] = ~activeFilters[filterKey]]
    /\ grid' = filterCombinations(grid, activeFilters')
    /\ events' = events + 1
    /\ lastEvent' = [op |-> "filterToggle", wellFormed |-> TRUE, ok |-> TRUE]
    /\ UNCHANGED colors

Next ==
    \/ addColor
    \/ \E id \in IdsOf(colors) : removeColor(id)
    \/ \E i \in 1..MAX_COLORS : \E value \in PickerValues : colorInput(i, value)
    \/ \E i \in 1..MAX_COLORS : \E value \in TypedValues : hexInputChange(i, value)
    \/ \E filterKey \in Tiers : filterToggle(filterKey)

Spec == Init /\ [][Next]_vars

(***************************************************************************)
(* renderCombinations as a function of the palette it is given             *)
(***************************************************************************)
\* the longest palette handed to renderCombinations
MaxRenderLen == 3

\* hex values of the entries handed to renderCombinations: two that pass
\* isValidHex and two that do not
RenderHexes == { InitialHexes[1],
                 <<"#", "7", "9", "8">>,
                 <<"#", "1", "2", "3", "4", "5">>,
                 <<"r", "e", "d">> }

InitRender ==
    \E n \in 0..MaxRenderLen : \E hexes \in [1..n -> RenderHexes] :
        /\ colors = [i \in 1..n |-> [id |-> i, hex |-> hexes[i]]]
        /\ activeFilters = [t \in Tiers |-> TRUE]
        /\ grid = <<>>
        /\ events = 0
        /\ lastEvent = [op |-> "input", wellFormed |-> TRUE, ok |-> TRUE]

renderStep ==
    /\ lastEvent.op = "input"
    /\ grid' = renderCombinations(colors, activeFilters)
    /\ lastEvent' = [op |-> "renderCombinations", wellFormed |-> TRUE, ok |-> TRUE]
    /\ UNCHANGED <<colors, activeFilters, events>>

SpecRender == InitRender /\ [][renderStep]_vars

(***************************************************************************)
(* The scoring functions, each called once on an input of its own          *)
(***************************************************************************)
\* colours passed to getContrastRatio and calcAPCA: black, white, the initial
\* palette, a shorthand, an upper-case shorthand, and greys one step apart
CallHexes == { <<"#", "0", "0", "0", "0", "0", "0">>,
               <<"#", "f", "f", "f", "f", "f", "f">>,
               InitialHexes[1], InitialHexes[2], InitialHexes[3],
               <<"#", "7", "9", "8">>,
               <<"#", "F", "F", "F">>,
               <<"#", "8", "0", "8", "0", "8", "0">>,
               <<"#", "8", "0", "8", "0", "8", "1">>,
               <<"#", "0", "1", "0", "1", "0", "1">> }

\* ratios passed to getComplianceLevel, times ONE: 0.00, 0.01, ... 21.00 and
\* the values next to the three thresholds
RatioInputs ==
    {k * 1000000 : k \in 0..2100}
        \cup {t + d : t \in {3 * ONE, 450000000, 7 * ONE}, d \in {-1, 1}}

\* Lc values passed to getAPCAComplianceLevel, in thousandths: -120.0,
\* -119.5, ... 120.0 and the values next to the three thresholds
LcInputs ==
    {500 * k : k \in -240..240}
        \cup {sign * (t + d) : sign \in {-1, 1}, t \in {45000, 60000, 75000},
                                d \in {-1, 1}}

InitCalls == Init /\ events = 0

callGetContrastRatio(hex1, hex2) ==
    /\ lastEvent.op = "load"
    /\ lastEvent' = [op |-> "getContrastRatio", args |-> <<hex1, hex2>>,
                     result |-> getContrastRatio(hex1, hex2)]
    /\ UNCHANGED <<colors, activeFilters, grid, events>>

callGetComplianceLevel(ratio) ==
    /\ lastEvent.op = "load"
    /\ lastEvent' = [op |-> "getComplianceLevel", args |-> <<ratio>>,
                     result |-> getComplianceLevel(ratio)]
    /\ UNCHANGED <<colors, activeFilters, grid, events>>

callGetAPCAComplianceLevel(lc) ==
    /\ lastEvent.op = "load"
    /\ lastEvent' = [op |-> "getAPCAComplianceLevel", args |-> <<lc>>,
                     result |-> getAPCAComplianceLevelIn(lc, 1000)]
    /\ UNCHANGED <<colors, activeFilters, grid, events>>

callCalcAPCA(textHex, bgHex) ==
    /\ lastEvent.op = "load"
    /\ lastEvent' = [op |-> "calcAPCA", args |-> <<textHex, bgHex>>,
                     result |-> calcAPCA(textHex, bgHex)]
    /\ UNCHANGED <<colors, activeFilters, grid, events>>

NextCalls ==
    \/ \E hex1 \in CallHexes : \E hex2 \in CallHexes :
          callGetContrastRatio(hex1, hex2)
    \/ \E ratio \in RatioInputs : callGetComplianceLevel(ratio)
    \/ \E lc \in LcInputs : callGetAPCAComplianceLevel(lc)
    \/ \E textHex \in CallHexes : \E bgHex \in CallHexes :
          callCalcAPCA(textHex, bgHex)

SpecCalls == InitCalls /\ [][NextCalls]_vars

(***************************************************************************)
(* Properties                                                              *)
(***************************************************************************)
\* C3: an edit whose text, after "#" is prepended if missing, is not "#"
\* plus 3 or 6 hex digits is rejected, and leaves the palette and the
\* results exactly as they were.
C3_InvalidEditRejected ==
    /\ [](lastEvent.op = "hexInput" /\ ~lastEvent.wellFormed => ~lastEvent.ok)
    /\ [][lastEvent'.op = "hexInput" /\ ~lastEvent'.wellFormed
            => colors' = colors /\ grid' = grid /\ activeFilters' = activeFilters]_vars

C3_Witness ==
    /\ lastEvent = [op |-> "hexInput", wellFormed |-> FALSE, ok |-> FALSE]
    /\ \A i \in DOMAIN colors : MatchesHexPattern(colors[i].hex)

\* C1: the palette always holds at least MIN_COLORS and at most MAX_COLORS
\* colours.
C1_PaletteBounds == Len(colors) >= MIN_COLORS /\ Len(colors) <= MAX_COLORS

\* C2, as stated: every stored colour is "#" followed by exactly 6
\* hexadecimal digits; no 3-digit value is ever held in the palette.
C2_SixDigitsStored ==
    \A i \in DOMAIN colors :
        Len(colors[i].hex) = 7 /\ MatchesHexPattern(colors[i].hex)

\* the six-digit form of a colour: each digit of a shorthand doubled
Doubled(h) ==
    IF Len(h) = 4 THEN <<"#", h[2], h[2], h[3], h[3], h[4], h[4]>> ELSE h

\* C2, amended: every stored colour is "#" followed by exactly 3 or exactly
\* 6 hexadecimal digits; a shorthand is stored as typed and is expanded by
\* digit duplication when it is decoded, so every card carries the scores
\* of the six-digit forms of its two colours.
C2_StoredAsTyped ==
    /\ \A i \in DOMAIN colors : MatchesHexPattern(colors[i].hex)
    /\ \A k \in DOMAIN grid :
          LET sc == scoresOf(Doubled(grid[k].text), Doubled(grid[k].bg))
          IN  /\ grid[k].ratio = sc.ratio
              /\ grid[k].lc = Abs(sc.apcaScore)

C2_Witness ==
    /\ lastEvent = [op |-> "hexInput", wellFormed |-> TRUE, ok |-> TRUE]
    /\ \E i \in DOMAIN colors : Len(colors[i].hex) = 4
    /\ \E k \in DOMAIN grid : Len(grid[k].text) = 4

\* C4: for a palette of N colours, 2 <= N <= 9, the pairs are the N * (N - 1)
\* ordered index pairs (i, j), i # j, each once, text index ascending and
\* then background index ascending: the pair (i, j) is at position
\* i * (N - 1) + (j, or j - 1 when j > i), and the cards follow the pairs.
C4_PairEnumeration ==
    LET n == Len(colors)
        pairs == generatePairs(n)
    IN  n >= MIN_COLORS /\ n <= MAX_COLORS =>
            /\ Len(pairs) = n * (n - 1)
            /\ \A i \in 0..(n - 1) : \A j \in 0..(n - 1) :
                  i # j => pairs[i * (n - 1) + (IF j < i THEN j ELSE j - 1) + 1]
                               = [text |-> i, bg |-> j]
            /\ Len(grid) = Len(pairs)
            /\ \A k \in DOMAIN grid :
                  /\ grid[k].text = colors[pairs[k].text + 1].hex
                  /\ grid[k].bg = colors[pairs[k].bg + 1].hex

C4_Witness ==
    /\ Len(colors) = MAX_COLORS
    /\ Len(grid) = MAX_COLORS * (MAX_COLORS - 1)
    /\ lastEvent.op = "addColor"

\* C5: the WCAG tier of every card is the tier of the unrounded contrast
\* ratio of its pair.
C5_TierOfUnroundedRatio ==
    \A k \in DOMAIN grid :
        grid[k].level = getComplianceLevel(contrastRatioRaw(grid[k].text, grid[k].bg))

\* the tier of an unrounded Lc = 100 * sapc
TierOfUnroundedLc(sapc) ==
    IF Abs(sapc) >= 75000000 THEN "AAA"
    ELSE IF Abs(sapc) >= 60000000 THEN "AA"
    ELSE IF Abs(sapc) >= 45000000 THEN "AA Large"
    ELSE "Fail"

\* C6: the APCA tier of every card is the tier of the unrounded magnitude
\* of the Lc of its pair.
C6_TierOfUnroundedLc ==
    \A k \in DOMAIN grid :
        grid[k].apcaLevel = TierOfUnroundedLc(calcSAPC(grid[k].text, grid[k].bg))

\* C7: a card is shown iff the filter flag of its governing tier is true:
\* its WCAG tier when "APCA informational only" is set, its APCA tier when
\* it is not. The handlers read no such flag, so what the grid shows has to
\* be right for either value of it.
C7_GoverningTierVisibility ==
    \A apcaInformationalOnly \in BOOLEAN : \A k \in DOMAIN grid :
        ~grid[k].hidden <=>
            activeFilters[IF apcaInformationalOnly THEN grid[k].level
                          ELSE grid[k].apcaLevel]

\* what the grid shows: its children without the class "hidden"
visibleOutput(g) == SelectSeq(g, LAMBDA c : ~c.hidden)

\* C8: when the palette is valid, has at least 2 colours and the filters
\* hide every card, the grid shows something, which what it shows when no
\* pair is evaluated (nothing) is not.
C8_EmptyStateSignal ==
    (/\ Len(colors) >= MIN_COLORS
     /\ \A i \in DOMAIN colors : MatchesHexPattern(colors[i].hex)
     /\ grid # <<>>
     /\ \A k \in DOMAIN grid : grid[k].hidden)
        => visibleOutput(grid) # visibleOutput(renderCombinations(<<>>, activeFilters))

\* a card without its class list
Unclassed(card) == [card EXCEPT !.hidden = FALSE]

\* C9: a filter toggle changes one flag and the hidden status of cards: the
\* palette, the cards and their ratio, tiers and Lc stay; and toggling any
\* flag twice gives back the grid as it is.
C9_ToggleFrame ==
    /\ [](\A key \in Tiers :
            filterCombinations(
                filterCombinations(
                    grid, [activeFilters EXCEPT ![key] = ~activeFilters[key]]),
                activeFilters) = grid)
    /\ [][lastEvent'.op = "filterToggle" =>
            /\ colors' = colors
            /\ Cardinality({t \in Tiers : activeFilters'[t] # activeFilters[t]}) = 1
            /\ Len(grid') = Len(grid)
            /\ \A k \in DOMAIN grid : Unclassed(grid'[k]) = Unclassed(grid[k])]_vars

\* a flag was toggled off and on again, on a grid some of whose cards it hid
C9_Witness ==
    /\ lastEvent.op = "filterToggle"
    /\ events = 2
    /\ \A t \in Tiers : activeFilters[t]
    /\ grid # <<>>
    /\ \A k \in DOMAIN grid : ~grid[k].hidden

\* C10: renderCombinations on a palette of fewer than 2 colours, or with a
\* colour that is not "#" plus 3 or 6 hex digits, leaves the grid empty.
C10_NoResults ==
    (/\ lastEvent.op = "renderCombinations"
     /\ \/ Len(colors) < MIN_COLORS
        \/ \E i \in DOMAIN colors : ~MatchesHexPattern(colors[i].hex))
        => grid = <<>>

C10_Witness ==
    /\ lastEvent.op = "renderCombinations"
    /\ Len(colors) = 3
    /\ ~MatchesHexPattern(colors[3].hex)
    /\ MatchesHexPattern(colors[1].hex) /\ MatchesHexPattern(colors[2].hex)
    /\ grid = <<>>

\* the colour a valid hex string denotes: its six digits in lower case
SameColour(h1, h2) == toLowerCase(Doubled(h1)) = toLowerCase(Doubled(h2))

\* C11: for valid colours A and B, getContrastRatio(A, B) equals
\* getContrastRatio(B, A), lies in [1, 21], is 1 when A and B are the same
\* colour and is 21 for black against white.
C11_RatioSymmetricBounded ==
    lastEvent.op = "getContrastRatio" =>
        LET A == lastEvent.args[1]
            B == lastEvent.args[2]
        IN  /\ lastEvent.result = getContrastRatio(B, A)
            /\ lastEvent.result >= ONE /\ lastEvent.result <= 21 * ONE
            /\ SameColour(A, B) => lastEvent.result = ONE
            /\ (/\ A = <<"#", "0", "0", "0", "0", "0", "0">>
                /\ SameColour(B, <<"#", "f", "f", "f", "f", "f", "f">>))
                  => lastEvent.result = 21 * ONE

C11_Witness ==
    /\ lastEvent.op = "getContrastRatio"
    /\ lastEvent.args = << <<"#", "0", "0", "0", "0", "0", "0">>,
                           <<"#", "f", "f", "f", "f", "f", "f">> >>
    /\ lastEvent.result = 21 * ONE

\* the tiers in ascending order
TierRank(tier) ==
    CASE tier = "Fail" -> 0 [] tier = "AA Large" -> 1
      [] tier = "AA" -> 2 [] tier = "AAA" -> 3

\* C12: getComplianceLevel gives AAA iff ratio >= 7, AA iff 4.5 <= ratio < 7,
\* "AA Large" iff 3 <= ratio < 4.5, Fail iff ratio < 3, and a larger ratio
\* never gets a lower tier.
C12_ComplianceLevelBounds ==
    lastEvent.op = "getComplianceLevel" =>
        LET ratio == lastEvent.args[1]
            tier == lastEvent.result
        IN  /\ tier = "AAA" <=> ratio >= 7 * ONE
            /\ tier = "AA" <=> (ratio >= 450000000 /\ ratio < 7 * ONE)
            /\ tier = "AA Large" <=> (ratio >= 3 * ONE /\ ratio < 450000000)
            /\ tier = "Fail" <=> ratio < 3 * ONE
            /\ \A lower \in RatioInputs :
                  lower <= ratio =>
                      TierRank(getComplianceLevel(lower)) <= TierRank(tier)

C12_Witness ==
    /\ lastEvent.op = "getComplianceLevel"
    /\ lastEvent.args = <<450000000>>
    /\ lastEvent.result = "AA"

\* C13: getAPCAComplianceLevel gives AAA iff |Lc| >= 75, AA iff
\* 60 <= |Lc| < 75, "AA Large" iff 45 <= |Lc| < 60, Fail iff |Lc| < 45, and
\* the tier of Lc is the tier of -Lc.
C13_APCALevelOfMagnitude ==
    lastEvent.op = "getAPCAComplianceLevel" =>
        LET lc == lastEvent.args[1]
            magnitude == IF lc < 0 THEN -lc ELSE lc
            tier == lastEvent.result
        IN  /\ tier = "AAA" <=> magnitude >= 75000
            /\ tier = "AA" <=> (magnitude >= 60000 /\ magnitude < 75000)
            /\ tier = "AA Large" <=> (magnitude >= 45000 /\ magnitude < 60000)
            /\ tier = "Fail" <=> magnitude < 45000
            /\ tier = getAPCAComplianceLevelIn(-lc, 1000)

C13_Witness ==
    /\ lastEvent.op = "getAPCAComplianceLevel"
    /\ lastEvent.args = <<-75000>>
    /\ lastEvent.result = "AAA"

\* C14: the Lc shown on a card is the signed value calcAPCA computed for
\* its pair: a negative score is shown as negative, never as its magnitude.
C14_SignedLcShown ==
    \A k \in DOMAIN grid : grid[k].lc = calcAPCA(grid[k].text, grid[k].bg)

\* the card the grid has to hold for text colour i on background colour j
\* (1-based) when it shows the results of the current palette and filters
CurrentCard(i, j) ==
    LET sc == scoresOf(colors[i].hex, colors[j].hex)
    IN  [text |-> colors[i].hex, bg |-> colors[j].hex,
         ratio |-> sc.ratio, level |-> sc.level,
         lc |-> Abs(sc.apcaScore), apcaLevel |-> sc.apcaLevel,
         hidden |-> ~activeFilters[sc.level]]

\* C15: after every action the grid holds exactly the results of the current
\* state: one card per ordered pair of the current palette, with the scores
\* of the pair's current hex values, hidden iff the filter flag of its WCAG
\* tier is false now.
C15_DisplayCurrent ==
    LET n == Len(colors)
    IN  /\ Len(grid) = (IF n >= MIN_COLORS THEN n * (n - 1) ELSE 0)
        /\ \A i \in 1..n : \A j \in 1..n :
              i # j => grid[(i - 1) * (n - 1) + (IF j < i THEN j ELSE j - 1)]
                           = CurrentCard(i, j)

\* a colour was edited while a filter was off, and cards are hidden
C15_Witness ==
    /\ lastEvent = [op |-> "hexInput", wellFormed |-> TRUE, ok |-> TRUE]
    /\ \E t \in Tiers : ~activeFilters[t]
    /\ \E k \in DOMAIN grid : grid[k].hidden
    /\ \E k \in DOMAIN grid : ~grid[k].hidden

\* the soft-clamped luminance calcAPCA computes for a colour
ClampedY(hex) == apcaY(hexToRgb(hex))

\* C16: calcAPCA returns 0 when text and background are the same colour,
\* and whenever their soft-clamped luminances differ by less than 0.0005.
C16_ZeroForIndistinguishable ==
    lastEvent.op = "calcAPCA" =>
        LET textHex == lastEvent.args[1]
            bgHex == lastEvent.args[2]
        IN  /\ SameColour(textHex, bgHex) => lastEvent.result = 0
            /\ Abs(ClampedY(bgHex) - ClampedY(textHex)) < 50000
                  => lastEvent.result = 0

\* two different greys whose luminances are closer than 0.0005
C16_Witness ==
    /\ lastEvent.op = "calcAPCA"
    /\ lastEvent.args = << <<"#", "8", "0", "8", "0", "8", "0">>,
                           <<"#", "8", "0", "8", "0", "8", "1">> >>
    /\ ClampedY(lastEvent.args[2]) # ClampedY(lastEvent.args[1])
    /\ lastEvent.result = 0

\* C17: when Y_bg > Y_text, calcAPCA returns 0 or at least 10; otherwise it
\* returns 0 or at most -10.
C17_PolarityBranch ==
    lastEvent.op = "calcAPCA" =>
        IF ClampedY(lastEvent.args[2]) > ClampedY(lastEvent.args[1])
        THEN lastEvent.result = 0 \/ lastEvent.result >= 10
        ELSE lastEvent.result = 0 \/ lastEvent.result <= -10

\* a background slightly lighter than its text, clamped to 0
C17_Witness ==
    /\ lastEvent.op = "calcAPCA"
    /\ lastEvent.args = << <<"#", "0", "0", "0", "0", "0", "0">>, InitialHexes[1] >>
    /\ ClampedY(lastEvent.args[2]) - ClampedY(lastEvent.args[1]) >= 50000
    /\ lastEvent.result = 0

\* C18: the ids of the palette entries are pairwise distinct in every
\* reachable state.
C18_IdsDistinct ==
    \A i \in DOMAIN colors : \A j \in DOMAIN colors :
        i # j => colors[i].id # colors[j].id

====
